---- MODULE Spec2Model ----
(***************************************************************************)
(* SSU (Steam Screenshot Utils), src/ssu.py.                               *)
(*                                                                         *)
(* A string is a sequence of characters (one-character TLA+ strings; the   *)
(* extensions "png"/"jpg" and the fixed directory names are single         *)
(* tokens).  A path is a sequence of strings, relative to the working      *)
(* directory of the process: <<>> is the working directory itself.         *)
(* The file system is a function from the existing paths to entries.       *)
(***************************************************************************)
EXTENDS Integers, Sequences, FiniteSets, TLC

VARIABLES
    pc,                   \* position of the process in the running command
    platform_system,      \* platform.system()
    cache_file,           \* content of appid_names.json on disk, or NoFile
    appid_names,          \* AppidConverter.appid_names
    downloaded_app_data,  \* AppidConverter.downloaded_app_data
    fetches,              \* number of executions of _download_app_data in this run
    calls,                \* number of get_app_name calls made by the lookup driver
    last,                 \* the last get_app_name call: arguments, pre-state, outcome
    fs,                   \* the file system
    root,                 \* output_folder / screenshots_folder / uncompressed_folder
    todo,                 \* directory entries (or appid groups) still to iterate
    cur,                  \* the application being processed: appid, app_folder, ...
    pending,              \* files of the current application still to iterate
    run,                  \* which consecutive run of the command this is
    log,                  \* every copy / move performed: run, source, destination
    steam_api,            \* what the Steam API answers over consecutive runs
    snap                  \* the file system as it was at an earlier point of the run

vars == <<pc, platform_system, cache_file, appid_names, downloaded_app_data,
          fetches, calls, last, fs, root, todo, cur, pending, run, log, steam_api,
          snap>>

(***************************************************************************)
(* Bounds of the model.                                                    *)
(***************************************************************************)
MaxCalls == 3   \* get_app_name calls made on one AppidConverter
MaxRuns == 2    \* consecutive runs of backup / merge

(***************************************************************************)
(* Strings.                                                                *)
(***************************************************************************)
Str(c) == <<c>>

None == <<"None">>          \* Python's None (no string of the model holds this token)

Appids == {Str("1"), Str("2")}

\* `not name` of get_app_name: None and the empty string are both falsy.
Falsy(name) == name = None \/ name = <<>>

\* A dict is a set of <<key, value>> pairs with one pair per key.
Keys(d) == {kv[1] : kv \in d}

\* dict.get(key)
DictGet(d, key) ==
    IF key \in Keys(d) THEN (CHOOSE kv \in d : kv[1] = key)[2] ELSE None

EmptyDict == {}

\* all dicts with keys among K and values in V
Dicts(K, V) ==
    {d \in SUBSET (K \X V) : \A x \in d, y \in d : x[1] = y[1] => x = y}

\* The cache file on disk: whether it exists, and the dict it holds.
NoFile == [exists |-> FALSE, data |-> EmptyDict]
File(d) == [exists |-> TRUE, data |-> d]

(***************************************************************************)
(* Name Resolver: class AppidConverter.                                    *)
(* The resolver state threaded through its methods is a record             *)
(*   [cache_file, appid_names, downloaded_app_data, fetches, raised, name] *)
(***************************************************************************)
StatusOK == 200

\* _download_app_data: raises unless the status code is 200
DownloadRaisesInverted(resp) == resp.status_code = StatusOK
DownloadRaises(resp) == resp.status_code # StatusOK

DownloadAppData(c, resp) ==
    IF DownloadRaises(resp)
    THEN [c EXCEPT !.fetches = @ + 1, !.raised = TRUE]
    ELSE [c EXCEPT !.fetches = @ + 1,
                   !.cache_file = File(resp.apps),
                   !.downloaded_app_data = TRUE,
                   !.appid_names = resp.apps]

\* _load_appid_names
LoadAppidNames(c, resp) ==
    IF c.cache_file.exists
    THEN [c EXCEPT !.appid_names = c.cache_file.data]
    ELSE DownloadAppData(c, resp)

\* __init__, with the flag cleared after the load instead of before it
AppidConverterInitFlagLast(disk, resp) ==
    [LoadAppidNames([cache_file |-> disk, appid_names |-> EmptyDict,
                     downloaded_app_data |-> FALSE, fetches |-> 0,
                     raised |-> FALSE, name |-> None], resp)
        EXCEPT !.downloaded_app_data = FALSE]

\* __init__
AppidConverterInit(disk, resp) ==
    LoadAppidNames([cache_file |-> disk, appid_names |-> EmptyDict,
                    downloaded_app_data |-> FALSE, fetches |-> 0,
                    raised |-> FALSE, name |-> None], resp)

\* get_app_name; resp is the answer the Steam API gives if it is asked
RECURSIVE GetAppName(_, _, _)
GetAppName(c, appid, resp) ==
    LET name == DictGet(c.appid_names, appid) IN
    IF Falsy(name)
    THEN IF ~c.downloaded_app_data
         THEN LET d == DownloadAppData(c, resp) IN
              IF d.raised THEN d ELSE GetAppName(d, appid, resp)
         ELSE [c EXCEPT !.name = appid]
    ELSE [c EXCEPT !.name = name]

\* the resolver state held in the variables
Converter ==
    [cache_file |-> cache_file, appid_names |-> appid_names,
     downloaded_app_data |-> downloaded_app_data, fetches |-> fetches,
     raised |-> FALSE, name |-> None]

SetConverter(c) ==
    /\ cache_file' = c.cache_file
    /\ appid_names' = c.appid_names
    /\ downloaded_app_data' = c.downloaded_app_data
    /\ fetches' = c.fetches

(***************************************************************************)
(* Answers of the Steam API and contents of the cache file.                *)
(***************************************************************************)
ResolverNames == {<<>>, Str("A"), Str("B")}

FailedResponse == [status_code |-> 500, apps |-> EmptyDict]

ResponsesOver(names) ==
    {FailedResponse} \cup
    {[status_code |-> StatusOK, apps |-> m] : m \in Dicts(Appids, names)}

NoCall == [appid |-> None, name |-> None, absent |-> FALSE, cached |-> None,
           flag_before |-> FALSE, fetched |-> FALSE,
           resp |-> FailedResponse, raised |-> FALSE]

\* the record kept of one get_app_name call
CallRecord(appid, resp, r) ==
    [appid |-> appid, name |-> r.name,
     absent |-> appid \notin Keys(appid_names),
     cached |-> DictGet(appid_names, appid),
     flag_before |-> downloaded_app_data,
     fetched |-> r.fetches > fetches,
     resp |-> IF r.fetches > fetches THEN resp ELSE FailedResponse,
     raised |-> r.raised]

NoCur == [appid |-> None, app_name |-> None, app_folder |-> <<>>,
          fallback |-> FALSE, count |-> 0, uncompressed_screenshots |-> {}]

(***************************************************************************)
(* Strings of file names: os.path.basename, str.split, os.path.splitext,   *)
(* glob patterns, re.sub, os.path.join.                                    *)
(***************************************************************************)
Dot == "."
Underscore == "_"

\* "<base>.<ext>"
FileName(base, ext) == base \o <<Dot, ext>>

\* os.path.basename of a path
Basename(path) == path[Len(path)]

\* os.path.dirname of a path
Dirname(path) == SubSeq(path, 1, Len(path) - 1)

\* positions of character ch in string s
Positions(s, ch) == {i \in 1..Len(s) : s[i] = ch}

Min(S) == CHOOSE x \in S : \A y \in S : x <= y
Max(S) == CHOOSE x \in S : \A y \in S : x >= y

\* basename.split("_", 1) unpacked into two names raises ValueError without "_"
SplitRaises(s) == Positions(s, Underscore) = {}

\* basename.split("_", 1): the text before and after the first underscore
SplitFirst(s) ==
    LET i == Min(Positions(s, Underscore)) IN
    <<SubSeq(s, 1, i - 1), SubSeq(s, i + 1, Len(s))>>

\* os.path.splitext(name)[0]: the text before the last dot, unless only dots
\* precede it
SplitExtKeepAll(s) == s
SplitExt(s) ==
    LET dots == Positions(s, Dot) IN
    IF dots = {} THEN s
    ELSE LET i == Max(dots) IN
         IF \E j \in 1..(i - 1) : s[j] # Dot THEN SubSeq(s, 1, i - 1) ELSE s

\* glob pattern "*.<ext>" on a directory entry: names that start with a dot
\* are hidden from "*"
GlobMatch(s, ext) ==
    /\ Len(s) >= 2
    /\ s[1] # Dot
    /\ SubSeq(s, Len(s) - 1, Len(s)) = <<Dot, ext>>

\* characters removed by sanitize_app_name on each platform
WindowsIllegal == {"<", ">", ":", "\"", "/", "\\", "|", "?", "*"}
UnixIllegal == {"/"}

Keep(S, c) == c \notin S

\* sanitize_app_name
SanitizeAppName(name, system) ==
    IF system = "Windows"
    THEN SelectSeq(name, LAMBDA c : Keep(WindowsIllegal, c))
    ELSE SelectSeq(name, LAMBDA c : Keep(UnixIllegal, c))

\* os.path.join(folder, name) for a name without separators: joining the
\* empty string gives the folder itself
Join(folder, name) == IF name = <<>> THEN folder ELSE Append(folder, name)

(***************************************************************************)
(* The file system.                                                        *)
(***************************************************************************)
Dir == [kind |-> "dir", data |-> <<>>]
RegFile(content) == [kind |-> "file", data |-> content]

\* a file system holding only the working directory
FsUnused == [p \in {<<>>} |-> Dir]

Exists(f, p) == p \in DOMAIN f
IsDir(f, p) == p \in DOMAIN f /\ f[p].kind = "dir"
IsFile(f, p) == p \in DOMAIN f /\ f[p].kind = "file"

\* the character of the model that no file system accepts in a name (NUL),
\* and that sanitize_app_name leaves in place
FsRejected == {"NUL"}

Prefixes(p) == {SubSeq(p, 1, n) : n \in 0..Len(p)}

\* os.listdir(d)
Listdir(f, d) == {Basename(p) : p \in {q \in DOMAIN f : Len(q) = Len(d) + 1 /\ Dirname(q) = d}}

\* glob.glob(os.path.join(d, "*.<ext>")), as the names matched
Glob(f, d, ext) == {n \in Listdir(f, d) : GlobMatch(n, ext)}

\* os.makedirs(p, exist_ok=True) raises: a name the file system rejects, or
\* something that is not a directory in the way
MakedirsRaises(f, p) ==
    \/ \E i \in 1..Len(p) : \E j \in 1..Len(p[i]) : p[i][j] \in FsRejected
    \/ \E q \in Prefixes(p) : IsFile(f, q)

\* os.makedirs(p, exist_ok=True)
Makedirs(f, p) ==
    [q \in DOMAIN f \cup Prefixes(p) |-> IF q \in DOMAIN f THEN f[q] ELSE Dir]

\* where shutil.copy2(src, dst) writes: into dst when dst is a directory
CopyTarget(f, src, dst) == IF IsDir(f, dst) THEN Append(dst, Basename(src)) ELSE dst

\* shutil.copy2(src, dst) raises
CopyRaises(f, src, dst) ==
    LET t == CopyTarget(f, src, dst) IN
    \/ ~IsFile(f, src)
    \/ t = <<>>
    \/ IsDir(f, t)
    \/ t = src
    \/ ~IsDir(f, Dirname(t))

\* shutil.copy2(src, dst)
Copy2(f, src, dst) ==
    LET t == CopyTarget(f, src, dst) IN
    [q \in DOMAIN f \cup {t} |-> IF q = t THEN f[src] ELSE f[q]]

\* os.rename(src, dst) raises: on Windows when dst exists, elsewhere when
\* dst is a directory; everywhere when src or the directory of dst is missing
RenameRaises(f, src, dst, system) ==
    \/ ~IsFile(f, src)
    \/ dst = <<>>
    \/ ~IsDir(f, Dirname(dst))
    \/ IsDir(f, dst)
    \/ (system = "Windows" /\ Exists(f, dst))

\* os.rename(src, dst)
Rename(f, src, dst) ==
    IF src = dst THEN f
    ELSE [q \in (DOMAIN f \ {src}) \cup {dst} |-> IF q = dst THEN f[src] ELSE f[q]]

\* a file system from a set of directories and a set of files; the content
\* of each file is named after the path it has at the start
MakeFs(dirs, files) ==
    [q \in {<<>>} \cup dirs \cup files |-> IF q \in files THEN RegFile(q) ELSE Dir]

(***************************************************************************)
(* Folder Materializer: create_app_folder.                                 *)
(***************************************************************************)
\* line 135: the appid returned on the fallback path, as the path that this
\* string denotes to the caller (relative to the working directory)
FallbackValue(root_folder, appid) == Join(<<>>, appid)

\* create_app_folder: the file system after it, the value returned (as the
\* path it denotes), whether the fallback was taken, whether it raised
CreateAppFolder(f, root_folder, app_name, appid) ==
    LET app_folder == Join(root_folder, app_name)
        appid_folder == Join(root_folder, appid) IN
    IF ~MakedirsRaises(f, app_folder)
    THEN [fs |-> Makedirs(f, app_folder), app_folder |-> app_folder,
          fallback |-> FALSE, raised |-> FALSE]
    ELSE IF MakedirsRaises(f, appid_folder)
    THEN [fs |-> f, app_folder |-> <<>>, fallback |-> TRUE, raised |-> TRUE]
    ELSE [fs |-> Makedirs(f, appid_folder),
          app_folder |-> FallbackValue(root_folder, appid),
          fallback |-> TRUE, raised |-> FALSE]

(***************************************************************************)
(* Specification of the resolver alone: one AppidConverter is constructed  *)
(* and get_app_name is called on it with any identifiers.                  *)
(***************************************************************************)
InitResolver ==
    /\ pc = "new"
    /\ platform_system = "Linux"
    /\ cache_file \in {NoFile} \cup {File(d) : d \in Dicts(Appids, ResolverNames)}
    /\ appid_names = EmptyDict
    /\ downloaded_app_data = FALSE
    /\ fetches = 0
    /\ calls = 0
    /\ last = NoCall
    /\ fs = FsUnused
    /\ root = <<>>
    /\ todo = {}
    /\ cur = NoCur
    /\ pending = {}
    /\ run = 1
    /\ log = {}
    /\ steam_api = FailedResponse
    /\ snap = FsUnused

Construct ==
    /\ pc = "new"
    /\ \E resp \in ResponsesOver(ResolverNames) :
          LET c == AppidConverterInit(cache_file, resp) IN
          /\ SetConverter(c)
          /\ pc' = IF c.raised THEN "raised" ELSE "ready"
    /\ UNCHANGED <<platform_system, calls, last, fs, root, todo, cur, pending, run, log, snap, steam_api>>

CallGetAppName ==
    /\ pc = "ready"
    /\ calls < MaxCalls
    /\ \E appid \in Appids, resp \in ResponsesOver(ResolverNames) :
          LET r == GetAppName(Converter, appid, resp) IN
          /\ SetConverter(r)
          /\ last' = CallRecord(appid, resp, r)
          /\ pc' = IF r.raised THEN "raised" ELSE "ready"
    /\ calls' = calls + 1
    /\ UNCHANGED <<platform_system, fs, root, todo, cur, pending, run, log, snap, steam_api>>

NextResolver == Construct \/ CallGetAppName

SpecResolver == InitResolver /\ [][NextResolver]_vars

(***************************************************************************)
(* Inputs of the three commands.                                           *)
(***************************************************************************)
Platforms == {"Windows", "Linux"}

NameA == Str("A")
NameAColon == <<"A", ":">>      \* "A" on Windows, "A:" elsewhere
NameSlash == <<"/">>            \* sanitizes to the empty string
NameNul == <<"A", "NUL">>       \* no folder of this name can be created

AppNames == {NameA, NameAColon, NameSlash, NameNul}

\* what the Steam API may answer while a command runs
AppResponses == ResponsesOver({NameA})

AppCaches == {NoFile} \cup {File(d) : d \in Dicts(Appids, AppNames)}

(***************************************************************************)
(* Sort Operation: sort(screenshots_folder).                               *)
(***************************************************************************)
SortFolder == Str("S")
SortRoots == {<<>>, <<SortFolder>>}

Rests == {Str("a"), <<"a", "_", "b">>}

\* "<appid>_<rest>.png"
SortName(appid, rest) == FileName(appid \o <<Underscore>> \o rest, "png")
SortNames == {SortName(a, r) : a \in Appids, r \in Rests}
StrayName == FileName(Str("x"), "png")

\* the sets of png files found directly in the folder: any matching files,
\* or matching files and one png without an underscore
SortNameSets == SUBSET SortNames \cup {{SortName(Str("1"), Str("a")), StrayName}}

\* what else exists before the sort: nothing; a directory <appid> in the
\* working directory; the application folder with a file of the same rest;
\* a regular file where the application folder would be
SortFsFor(r, names, pre) ==
    LET files == {Append(r, n) : n \in names} IN
    CASE pre = "none" -> MakeFs({r}, files)
      [] pre = "cwd_dir" -> MakeFs({r, <<Str("1")>>}, files)
      [] pre = "taken" ->
            MakeFs({r, Append(r, NameA)},
                   files \cup {r \o <<NameA, FileName(Str("a"), "png")>>})
      [] pre = "blocked" -> MakeFs({r}, files \cup {Append(r, NameA)})

SortInitialFs(r) ==
    {SortFsFor(r, names, pre) :
        names \in SortNameSets, pre \in {"none", "cwd_dir", "taken", "blocked"}}
    \cup {FsUnused}

InitSort ==
    /\ pc = "start"
    /\ platform_system \in Platforms
    /\ cache_file \in AppCaches
    /\ appid_names = EmptyDict
    /\ downloaded_app_data = FALSE
    /\ fetches = 0
    /\ calls = 0
    /\ last = NoCall
    /\ root \in SortRoots
    /\ fs \in SortInitialFs(root)
    /\ todo = {}
    /\ cur = NoCur
    /\ pending = {}
    /\ run = 1
    /\ log = {}
    /\ steam_api = FailedResponse
    /\ snap = FsUnused

\* lines 196-201: one scanned screenshot, keyed by the text before the first
\* underscore of its name
ScanEntry(folder, n) ==
    [appid |-> SplitFirst(n)[1],
     screenshot |-> Append(folder, n),
     screenshot_filename |-> SplitFirst(n)[2]]

\* line 216, with the whole file name kept
DestinationPathKeepName(app_folder, screenshot, screenshot_filename) ==
    Append(app_folder, Basename(screenshot))

\* line 216: os.path.join(app_folder, screenshot_filename)
DestinationPath(app_folder, screenshot, screenshot_filename) ==
    Append(app_folder, screenshot_filename)

\* lines 184-201: folder check, AppidConverter, scan and grouping
SortStart ==
    /\ pc = "start"
    /\ IF ~Exists(fs, root)
       THEN /\ pc' = "exit"
            /\ UNCHANGED <<cache_file, appid_names, downloaded_app_data, fetches, todo>>
       ELSE \E resp \in AppResponses :
               LET c == AppidConverterInit(cache_file, resp)
                   names == Glob(fs, root, "png") IN
               /\ SetConverter(c)
               /\ IF c.raised \/ (\E n \in names : SplitRaises(n))
                  THEN pc' = "raised" /\ todo' = {}
                  ELSE pc' = "loop" /\ todo' = {ScanEntry(root, n) : n \in names}
    /\ snap' = fs
    /\ UNCHANGED <<platform_system, calls, last, fs, root, cur, pending, run, log, steam_api>>

\* lines 204-214: the next appid group; name, sanitized name, folder
SortBeginApp ==
    /\ pc = "loop"
    /\ \E appid \in {t.appid : t \in todo}, resp \in AppResponses :
          LET r == GetAppName(Converter, appid, resp)
              m == CreateAppFolder(fs, root,
                                   SanitizeAppName(r.name, platform_system), appid)
              group == {t \in todo : t.appid = appid} IN
          /\ SetConverter(r)
          /\ IF r.raised
             THEN pc' = "raised" /\ UNCHANGED <<fs, cur, pending, todo>>
             ELSE /\ fs' = m.fs
                  /\ IF m.raised
                     THEN pc' = "raised" /\ UNCHANGED <<cur, pending, todo>>
                     ELSE /\ pc' = "files"
                          /\ cur' = [appid |-> appid, app_name |-> r.name,
                                     app_folder |-> m.app_folder,
                                     fallback |-> m.fallback, count |-> 0,
                                     uncompressed_screenshots |-> {}]
                          /\ pending' = group
                          /\ todo' = todo \ group
    /\ UNCHANGED <<platform_system, calls, last, root, run, log, snap, steam_api>>

\* lines 215-218: one screenshot of the group is renamed into the folder
SortMove ==
    /\ pc = "files"
    /\ \E t \in pending :
          LET dst == DestinationPath(cur.app_folder, t.screenshot,
                                     t.screenshot_filename) IN
          IF RenameRaises(fs, t.screenshot, dst, platform_system)
          THEN pc' = "raised" /\ UNCHANGED <<fs, cur, pending, log>>
          ELSE /\ fs' = Rename(fs, t.screenshot, dst)
               /\ cur' = [cur EXCEPT !.count = @ + 1]
               /\ pending' = pending \ {t}
               /\ log' = log \cup {[run |-> run, appid |-> cur.appid,
                                    src |-> t.screenshot, dst |-> dst]}
               /\ pc' = "files"
    /\ UNCHANGED <<platform_system, cache_file, appid_names, downloaded_app_data,
                   fetches, calls, last, root, todo, run, snap, steam_api>>

\* line 219: the group is done
SortEndApp ==
    /\ pc = "files"
    /\ pending = {}
    /\ pc' = "loop"
    /\ UNCHANGED <<platform_system, cache_file, appid_names, downloaded_app_data,
                   fetches, calls, last, fs, root, todo, cur, pending, run, log, snap, steam_api>>

\* line 221
SortFinish ==
    /\ pc = "loop"
    /\ todo = {}
    /\ pc' = "finished"
    /\ UNCHANGED <<platform_system, cache_file, appid_names, downloaded_app_data,
                   fetches, calls, last, fs, root, todo, cur, pending, run, log, snap, steam_api>>

NextSort == SortStart \/ SortBeginApp \/ SortMove \/ SortEndApp \/ SortFinish

SpecSort == InitSort /\ [][NextSort]_vars

(***************************************************************************)
(* Backup Operation: backup(steam_user_folder, output_folder).             *)
(***************************************************************************)
DefaultOutputFolder == Str("backup")
SteamUserFolder == <<Str("U")>>

\* line 140: os.path.join(steam_user_folder, "760", "remote")
ScreenshotsFolder == SteamUserFolder \o <<Str("760"), Str("remote")>>

\* line 170: the folder globbed for one appid
AppScreenshots(appid) == ScreenshotsFolder \o <<appid, Str("screenshots")>>

\* the output folder: the working directory ("."), or the default name
BackupRoots == {<<>>, <<DefaultOutputFolder>>}

JpgA == FileName(Str("a"), "jpg")
JpgB == FileName(Str("b"), "jpg")

\* an appid folder of the source: whether it exists, and its screenshots
NoFolder == [present |-> FALSE, shots |-> {}]
Folder(shots) == [present |-> TRUE, shots |-> shots]

\* the two appid folders of the source
BackupSources ==
    {<<s1, s2>> : s1 \in {NoFolder, Folder({}), Folder({JpgA}), Folder({JpgA, JpgB})},
                  s2 \in {NoFolder, Folder({JpgA})}}

SourceDirs(appid, folder) ==
    IF ~folder.present THEN {}
    ELSE {ScreenshotsFolder \o <<appid>>, AppScreenshots(appid)}

SourceFiles(appid, folder) ==
    {Append(AppScreenshots(appid), n) : n \in folder.shots}

\* the steam user folder: the remote folder, a plain file in it, and the
\* appid folders with their screenshots
BackupFsFor(r, src, pre) ==
    LET dirs == Prefixes(ScreenshotsFolder)
                \cup SourceDirs(Str("1"), src[1]) \cup SourceDirs(Str("2"), src[2])
        files == {Append(ScreenshotsFolder, FileName(Str("x"), "vdf"))}
                 \cup SourceFiles(Str("1"), src[1]) \cup SourceFiles(Str("2"), src[2]) IN
    CASE pre = "none" -> MakeFs(dirs, files)
      [] pre = "cwd_dir" -> MakeFs(dirs \cup {<<Str("1")>>}, files)
      [] pre = "taken" ->
            MakeFs(dirs \cup {r, Append(r, NameA)}, files \cup {r \o <<NameA, JpgA>>})
      [] pre = "blocked" -> MakeFs(dirs \cup {r}, files \cup {Append(r, NameA)})

BackupInitialFs(r) ==
    {BackupFsFor(r, src, pre) :
        src \in BackupSources, pre \in {"none", "cwd_dir", "taken", "blocked"}}
    \cup {FsUnused}

InitBackup ==
    /\ pc = "start"
    /\ platform_system \in Platforms
    /\ cache_file \in AppCaches
    /\ appid_names = EmptyDict
    /\ downloaded_app_data = FALSE
    /\ fetches = 0
    /\ calls = 0
    /\ last = NoCall
    /\ root \in BackupRoots
    /\ fs \in BackupInitialFs(root)
    /\ todo = {}
    /\ cur = NoCur
    /\ pending = {}
    /\ run = 1
    /\ log = {}
    /\ steam_api \in AppResponses
    /\ snap = fs

\* lines 138-155: folder check, output folder, AppidConverter, listing
BackupStart ==
    /\ pc = "start"
    /\ IF ~Exists(fs, ScreenshotsFolder)
       THEN /\ pc' = "exit"
            /\ UNCHANGED <<cache_file, appid_names, downloaded_app_data, fetches,
                           fs, todo>>
       ELSE IF MakedirsRaises(fs, root)
       THEN /\ pc' = "raised"
            /\ UNCHANGED <<cache_file, appid_names, downloaded_app_data, fetches,
                           fs, todo>>
       ELSE LET c == AppidConverterInit(cache_file, steam_api) IN
               /\ fs' = Makedirs(fs, root)
               /\ SetConverter(c)
               /\ IF c.raised
                  THEN pc' = "raised" /\ todo' = {}
                  ELSE pc' = "loop" /\ todo' = Listdir(fs, ScreenshotsFolder)
    /\ UNCHANGED <<platform_system, calls, last, root, cur, pending, run, log, snap, steam_api>>

\* lines 157-159: an entry that is not a folder is skipped
BackupSkipEntry ==
    /\ pc = "loop"
    /\ \E appid \in todo :
          /\ ~IsDir(fs, Append(ScreenshotsFolder, appid))
          /\ todo' = todo \ {appid}
    /\ UNCHANGED <<pc, platform_system, cache_file, appid_names, downloaded_app_data,
                   fetches, calls, last, fs, root, cur, pending, run, log, snap, steam_api>>

\* lines 161-172: the next appid folder; name, sanitized name, folder, glob
BackupBeginApp ==
    /\ pc = "loop"
    /\ \E appid \in todo :
          LET r == GetAppName(Converter, appid, steam_api)
              m == CreateAppFolder(fs, root,
                                   SanitizeAppName(r.name, platform_system), appid) IN
          /\ IsDir(fs, Append(ScreenshotsFolder, appid))
          /\ SetConverter(r)
          /\ IF r.raised
             THEN pc' = "raised" /\ UNCHANGED <<fs, cur, pending, todo>>
             ELSE /\ fs' = m.fs
                  /\ IF m.raised
                     THEN pc' = "raised" /\ UNCHANGED <<cur, pending, todo>>
                     ELSE /\ pc' = "files"
                          /\ cur' = [appid |-> appid, app_name |-> r.name,
                                     app_folder |-> m.app_folder,
                                     fallback |-> m.fallback, count |-> 0,
                                     uncompressed_screenshots |-> {}]
                          /\ pending' = Glob(fs, AppScreenshots(appid), "jpg")
                          /\ todo' = todo \ {appid}
    /\ UNCHANGED <<platform_system, calls, last, root, run, log, snap, steam_api>>

\* lines 173-177: one screenshot is copied unless its name exists in the folder
BackupCopy ==
    /\ pc = "files"
    /\ \E n \in pending :
          LET screenshot == Append(AppScreenshots(cur.appid), n) IN
          IF Exists(fs, Append(cur.app_folder, n))
          THEN /\ pending' = pending \ {n}
               /\ UNCHANGED <<pc, fs, cur, log>>
          ELSE IF CopyRaises(fs, screenshot, cur.app_folder)
          THEN pc' = "raised" /\ UNCHANGED <<fs, cur, pending, log>>
          ELSE /\ fs' = Copy2(fs, screenshot, cur.app_folder)
               /\ cur' = [cur EXCEPT !.count = @ + 1]
               /\ pending' = pending \ {n}
               /\ log' = log \cup {[run |-> run, appid |-> cur.appid,
                                    src |-> screenshot,
                                    dst |-> CopyTarget(fs, screenshot, cur.app_folder)]}
               /\ pc' = "files"
    /\ UNCHANGED <<platform_system, cache_file, appid_names, downloaded_app_data,
                   fetches, calls, last, root, todo, run, snap, steam_api>>

\* lines 178-179: the appid folder is done
BackupEndApp ==
    /\ pc = "files"
    /\ pending = {}
    /\ pc' = "loop"
    /\ UNCHANGED <<platform_system, cache_file, appid_names, downloaded_app_data,
                   fetches, calls, last, fs, root, todo, cur, pending, run, log, snap, steam_api>>

\* line 181
BackupFinish ==
    /\ pc = "loop"
    /\ todo = {}
    /\ pc' = "finished"
    /\ UNCHANGED <<platform_system, cache_file, appid_names, downloaded_app_data,
                   fetches, calls, last, fs, root, todo, cur, pending, run, log, snap, steam_api>>

\* the command is run again, as a new process, on what the finished run
\* before left
BackupRerun ==
    /\ pc = "finished"
    /\ todo' = {}
    /\ pending' = {}
    /\ run < MaxRuns
    /\ pc' = "start"
    /\ run' = run + 1
    /\ appid_names' = EmptyDict
    /\ downloaded_app_data' = FALSE
    /\ fetches' = 0
    /\ cur' = NoCur
    /\ snap' = fs
    /\ UNCHANGED <<platform_system, cache_file, calls, last, fs, root, log, steam_api>>

NextBackup ==
    \/ BackupStart \/ BackupSkipEntry \/ BackupBeginApp \/ BackupCopy
    \/ BackupEndApp \/ BackupFinish \/ BackupRerun

SpecBackup == InitBackup /\ [][NextBackup]_vars

(***************************************************************************)
(* Merge Operation: merge(compressed_folder, uncompressed_folder).         *)
(***************************************************************************)
CompressedFolder == <<Str("C")>>
UncompressedFolder == <<Str("V")>>

BaseX == Str("x")
BaseXY == <<"x", ".", "y">>

\* the compressed tree: the screenshots of the two application folders
MergeSources ==
    {<<s1, s2>> :
        s1 \in {NoFolder} \cup {Folder(S) : S \in SUBSET {FileName(BaseX, "jpg"),
                                                         FileName(BaseXY, "jpg")}},
        s2 \in {NoFolder, Folder({FileName(BaseX, "jpg")})}}

\* the uncompressed tree: for each application a folder with screenshots, no
\* folder, or a plain file of that name
PlainFile == [present |-> FALSE, shots |-> {<<>>}]

MergeDestinations ==
    {<<d1, d2>> :
        d1 \in {NoFolder, PlainFile}
               \cup {Folder(S) : S \in SUBSET {FileName(BaseX, "png"),
                                               FileName(BaseX, "jpg"),
                                               FileName(BaseXY, "png")}},
        d2 \in {NoFolder, Folder({}), Folder({FileName(BaseX, "png")})}}

TreeDirs(top, app, folder) == IF folder.present THEN {Append(top, app)} ELSE {}

TreeFiles(top, app, folder) ==
    IF folder = PlainFile THEN {Append(top, app)}
    ELSE {top \o <<app, n>> : n \in folder.shots}

MergeFsFor(src, dst) ==
    MakeFs({CompressedFolder, UncompressedFolder}
           \cup TreeDirs(CompressedFolder, NameA, src[1])
           \cup TreeDirs(CompressedFolder, Str("2"), src[2])
           \cup TreeDirs(UncompressedFolder, NameA, dst[1])
           \cup TreeDirs(UncompressedFolder, Str("2"), dst[2]),
           {Append(CompressedFolder, FileName(Str("f"), "txt"))}
           \cup TreeFiles(CompressedFolder, NameA, src[1])
           \cup TreeFiles(CompressedFolder, Str("2"), src[2])
           \cup TreeFiles(UncompressedFolder, NameA, dst[1])
           \cup TreeFiles(UncompressedFolder, Str("2"), dst[2]))

MergeInitialFs ==
    {MergeFsFor(src, dst) : src \in MergeSources, dst \in MergeDestinations}
    \cup {FsUnused, MakeFs({CompressedFolder}, {})}

InitMerge ==
    /\ pc = "start"
    /\ platform_system \in Platforms
    /\ cache_file = NoFile
    /\ appid_names = EmptyDict
    /\ downloaded_app_data = FALSE
    /\ fetches = 0
    /\ calls = 0
    /\ last = NoCall
    /\ root = UncompressedFolder
    /\ fs \in MergeInitialFs
    /\ todo = {}
    /\ cur = NoCur
    /\ pending = {}
    /\ run = 1
    /\ log = {}
    /\ steam_api = FailedResponse
    /\ snap = fs

\* lines 247-251, globbing "*.png" only
ExistingNamesPngOnly(f, folder) == {SplitExt(n) : n \in Glob(f, folder, "png")}

\* lines 247-251: the extension-stripped names of the png and jpg files of
\* the destination folder
ExistingNames(f, folder) ==
    {SplitExt(n) : n \in Glob(f, folder, "png") \cup Glob(f, folder, "jpg")}

\* lines 224-234: folder checks, listing
MergeStart ==
    /\ pc = "start"
    /\ IF ~Exists(fs, CompressedFolder) \/ ~Exists(fs, root)
       THEN pc' = "exit" /\ todo' = {}
       ELSE pc' = "loop" /\ todo' = Listdir(fs, CompressedFolder)
    /\ UNCHANGED <<platform_system, cache_file, appid_names, downloaded_app_data,
                   fetches, calls, last, fs, root, cur, pending, run, log, snap,
                   steam_api>>

\* lines 236-238: an entry that is not a folder is skipped
MergeSkipEntry ==
    /\ pc = "loop"
    /\ \E app_name \in todo :
          /\ ~IsDir(fs, Append(CompressedFolder, app_name))
          /\ todo' = todo \ {app_name}
    /\ UNCHANGED <<pc, platform_system, cache_file, appid_names, downloaded_app_data,
                   fetches, calls, last, fs, root, cur, pending, run, log, snap,
                   steam_api>>

\* lines 240-256: the next application folder; destination folder, names
\* already present, glob of the compressed screenshots
MergeBeginApp ==
    /\ pc = "loop"
    /\ \E app_name \in todo :
          LET app_folder_uncompressed == Append(root, app_name) IN
          /\ IsDir(fs, Append(CompressedFolder, app_name))
          /\ IF MakedirsRaises(fs, app_folder_uncompressed)
             THEN pc' = "raised" /\ UNCHANGED <<fs, cur, pending, todo, snap>>
             ELSE /\ fs' = Makedirs(fs, app_folder_uncompressed)
                  /\ snap' = fs'
                  /\ pc' = "files"
                  /\ cur' = [appid |-> app_name, app_name |-> app_name,
                             app_folder |-> app_folder_uncompressed,
                             fallback |-> FALSE, count |-> 0,
                             uncompressed_screenshots |->
                                 ExistingNames(fs', app_folder_uncompressed)]
                  /\ pending' = Glob(fs, Append(CompressedFolder, app_name), "jpg")
                  /\ todo' = todo \ {app_name}
    /\ UNCHANGED <<platform_system, cache_file, appid_names, downloaded_app_data,
                   fetches, calls, last, root, run, log, steam_api>>

\* lines 256-260: one compressed screenshot is copied unless its
\* extension-stripped name is among the names already present
MergeCopy ==
    /\ pc = "files"
    /\ \E n \in pending :
          LET screenshot == CompressedFolder \o <<cur.appid, n>> IN
          IF SplitExt(n) \in cur.uncompressed_screenshots
          THEN /\ pending' = pending \ {n}
               /\ UNCHANGED <<pc, fs, cur, log>>
          ELSE IF CopyRaises(fs, screenshot, cur.app_folder)
          THEN pc' = "raised" /\ UNCHANGED <<fs, cur, pending, log>>
          ELSE /\ fs' = Copy2(fs, screenshot, cur.app_folder)
               /\ cur' = [cur EXCEPT !.count = @ + 1]
               /\ pending' = pending \ {n}
               /\ log' = log \cup {[run |-> run, appid |-> cur.appid,
                                    src |-> screenshot,
                                    dst |-> CopyTarget(fs, screenshot, cur.app_folder)]}
               /\ pc' = "files"
    /\ UNCHANGED <<platform_system, cache_file, appid_names, downloaded_app_data,
                   fetches, calls, last, root, todo, run, snap, steam_api>>

\* lines 261-262: the application folder is done
MergeEndApp ==
    /\ pc = "files"
    /\ pending = {}
    /\ pc' = "loop"
    /\ UNCHANGED <<platform_system, cache_file, appid_names, downloaded_app_data,
                   fetches, calls, last, fs, root, todo, cur, pending, run, log,
                   snap, steam_api>>

\* line 264
MergeFinish ==
    /\ pc = "loop"
    /\ todo = {}
    /\ pc' = "finished"
    /\ UNCHANGED <<platform_system, cache_file, appid_names, downloaded_app_data,
                   fetches, calls, last, fs, root, todo, cur, pending, run, log,
                   snap, steam_api>>

\* the command is run again on what the finished run before left
MergeRerun ==
    /\ pc = "finished"
    /\ todo' = {}
    /\ pending' = {}
    /\ run < MaxRuns
    /\ pc' = "start"
    /\ run' = run + 1
    /\ cur' = NoCur
    /\ snap' = fs
    /\ UNCHANGED <<platform_system, cache_file, appid_names, downloaded_app_data,
                   fetches, calls, last, fs, root, log, steam_api>>

NextMerge ==
    \/ MergeStart \/ MergeSkipEntry \/ MergeBeginApp \/ MergeCopy
    \/ MergeEndApp \/ MergeFinish \/ MergeRerun

SpecMerge == InitMerge /\ [][NextMerge]_vars

(***************************************************************************)
(* Claims about merge (checked under SpecMerge).  snap is the file system  *)
(* at the start of the processing of the current application folder.       *)
(***************************************************************************)
\* C7: a second run of merge on an unchanged compressed tree copies no file:
\* every application folder reports no new compressed screenshots.
C7_MergeIdempotent ==
    run >= 2 => /\ \A e \in log : e.run < run
                /\ cur.count = 0

\* the second run went through a folder into which the first run had copied
C7_Witness ==
    /\ run = 2
    /\ pc = "files"
    /\ pending = {}
    /\ cur.count = 0
    /\ \E e \in log : e.run = 1 /\ e.appid = cur.appid /\ IsFile(fs, e.dst)

\* "<base>.jpg" without its last two tokens
BaseOfJpg(n) == SubSeq(n, 1, Len(n) - 2)

\* the screenshot named n of the current application folder was copied into
\* the destination folder by this run
CopiedNow(n) ==
    LET src == CompressedFolder \o <<cur.appid, n>>
        dst == Append(cur.app_folder, n) IN
    /\ IsFile(fs, dst)
    /\ fs[dst] = snap[src]
    /\ \E e \in log : e.run = run /\ e.src = src /\ e.dst = dst

\* C8: when the processing of an application folder is over, a compressed
\* file <base>.jpg of it was copied into the destination folder if and only
\* if the destination folder held neither <base>.png nor <base>.jpg when the
\* processing started.
C8_MatchIgnoresExtension ==
    (pc = "files" /\ pending = {}) =>
        \A n \in Glob(snap, CompressedFolder \o <<cur.appid>>, "jpg") :
            CopiedNow(n)
            <=> /\ ~Exists(snap, Append(cur.app_folder, FileName(BaseOfJpg(n), "png")))
                /\ ~Exists(snap, Append(cur.app_folder, FileName(BaseOfJpg(n), "jpg")))

\* x.png in the destination made x.jpg be skipped, while x.y.jpg was copied
C8_Witness ==
    /\ pc = "files"
    /\ pending = {}
    /\ run = 1
    /\ Exists(snap, Append(cur.app_folder, FileName(BaseX, "png")))
    /\ ~Exists(snap, Append(cur.app_folder, FileName(BaseX, "jpg")))
    /\ IsFile(snap, CompressedFolder \o <<cur.appid, FileName(BaseX, "jpg")>>)
    /\ ~CopiedNow(FileName(BaseX, "jpg"))
    /\ ~Exists(fs, Append(cur.app_folder, FileName(BaseX, "jpg")))
    /\ CopiedNow(FileName(BaseXY, "jpg"))

(***************************************************************************)
(* Claims about backup (checked under SpecBackup).  snap is the file       *)
(* system as the run found it: the initial one in the first run, the one   *)
(* the run before left in a later run.                                     *)
(***************************************************************************)
\* C1 as claimed: when the folder with the sanitized name cannot be created,
\* root/<identifier> is created and every file of that application copied
\* afterwards is placed inside root/<identifier>.
C1_FallbackFolderUsed ==
    (pc = "files" /\ cur.fallback) =>
        /\ IsDir(fs, Join(root, cur.appid))
        /\ \A e \in log :
              (e.run = run /\ e.appid = cur.appid)
              => /\ Dirname(e.dst) = Join(root, cur.appid)
                 /\ IsFile(fs, e.dst)

\* the regular files of a file system
FilesOf(f) == {p \in DOMAIN f : f[p].kind = "file"}

\* C2 as claimed: a second run of backup on an unchanged source copies no
\* file, and leaves the set of files as the first run left it.
C2_BackupIdempotent ==
    run >= 2 =>
        /\ \A e \in log : e.run < run
        /\ pc = "finished" => FilesOf(fs) = FilesOf(snap)

\* the compressed screenshots of the source: "*.jpg" in the screenshots
\* folder of an appid folder
SourceShots(f) ==
    {p \in FilesOf(f) : /\ Len(p) = Len(ScreenshotsFolder) + 3
                        /\ Dirname(p) = AppScreenshots(p[Len(ScreenshotsFolder) + 1])
                        /\ GlobMatch(Basename(p), "jpg")}

\* q is inside the output folder
InOutputTree(q) == Len(q) > Len(root) /\ SubSeq(q, 1, Len(root)) = root

\* C10 as claimed: after a backup into an empty (or absent) output folder,
\* every compressed screenshot of the source has a copy of its own, with its
\* content, in the output tree.
C10_BackupComplete ==
    (/\ pc = "finished"
     /\ run = 1
     /\ root # <<>>
     /\ Listdir(snap, root) = {})
    => \A p \in SourceShots(snap) :
          \E q \in FilesOf(fs) : InOutputTree(q) /\ fs[q] = snap[p]

(***************************************************************************)
(* Claims about sort (checked under SpecSort).  snap is the file system    *)
(* as the scan of sort found it.                                           *)
(***************************************************************************)
\* the files the scan of sort matched: "<identifier>_<rest>.png" directly in
\* the folder
Scanned ==
    {p \in DOMAIN snap : /\ IsFile(snap, p)
                         /\ Dirname(p) = root
                         /\ GlobMatch(Basename(p), "png")
                         /\ ~SplitRaises(Basename(p))}

\* where the content of the scanned file p is now
Homes(p) == {q \in DOMAIN fs : fs[q] = snap[p]}

\* q is a file inside a folder that is directly in the sorted folder
InAppFolderOfRoot(q) == Len(q) = Len(root) + 2 /\ SubSeq(q, 1, Len(root)) = root

\* C3 as claimed: after sort completes, every scanned file is in exactly one
\* application folder of the sorted folder, files of one identifier share
\* their folder, no scanned file is still directly in the sorted folder, and
\* as many files were moved as were scanned.
C3_SortIsPartition ==
    pc = "finished" =>
        /\ Cardinality(log) = Cardinality(Scanned)
        /\ \A p \in Scanned :
              /\ Cardinality(Homes(p)) = 1
              /\ \A q \in Homes(p) : InAppFolderOfRoot(q)
        /\ \A p1 \in Scanned, p2 \in Scanned :
              SplitFirst(Basename(p1))[1] = SplitFirst(Basename(p2))[1]
              => \A q1 \in Homes(p1), q2 \in Homes(p2) : Dirname(q1) = Dirname(q2)

\* C9 as claimed: a file "<identifier>_<rest>.png" that sort has moved out of
\* the folder is present afterwards under that same original file name.
C9_KeepsOriginalName ==
    [][ \A p \in DOMAIN fs :
          (/\ IsFile(fs, p)
           /\ Dirname(p) = root
           /\ GlobMatch(Basename(p), "png")
           /\ ~SplitRaises(Basename(p))
           /\ p \notin DOMAIN fs')
          => \E q \in DOMAIN fs' : fs'[q] = fs[p] /\ Basename(q) = Basename(p) ]_vars

\* C9 as amended: a file "<identifier>_<rest>.png" that sort has moved out of
\* the folder is present afterwards under the name "<rest>.png" (its name
\* without the identifier and the first underscore), not under its original
\* name, in the folder value create_app_folder returned for its identifier.
C9_StoredUnderRest ==
    [][ \A p \in DOMAIN fs :
          (/\ IsFile(fs, p)
           /\ Dirname(p) = root
           /\ GlobMatch(Basename(p), "png")
           /\ ~SplitRaises(Basename(p))
           /\ p \notin DOMAIN fs')
          => LET q == Append(cur.app_folder, SplitFirst(Basename(p))[2]) IN
             /\ q \in DOMAIN fs'
             /\ fs'[q] = fs[p]
             /\ Basename(q) # Basename(p)
             /\ \A o \in DOMAIN fs' : fs'[o] = fs[p] => o = q ]_vars

\* sort finished after moving a file whose rest holds an underscore itself
C9_Witness ==
    /\ pc = "finished"
    /\ \E e \in log :
          /\ e.src \notin DOMAIN fs
          /\ IsFile(fs, e.dst)
          /\ fs[e.dst] = RegFile(e.src)
          /\ Basename(e.dst) = FileName(<<"a", "_", "b">>, "png")
          /\ Dirname(e.dst) = Append(root, NameA)

(***************************************************************************)
(* Claims about the resolver (checked under SpecResolver).                 *)
(***************************************************************************)

\* C4: over one AppidConverter (its construction and any get_app_name calls),
\* _download_app_data is executed at most once, and once it has been executed
\* every later miss returns the raw identifier without another remote call.
C4_AtMostOneFetch ==
    [][ /\ fetches' <= 1
        /\ (/\ pc = "ready"
            /\ calls' = calls + 1
            /\ fetches >= 1
            /\ Falsy(DictGet(appid_names, last'.appid)))
           => (/\ last'.name = last'.appid
               /\ ~last'.raised
               /\ fetches' = fetches) ]_vars

\* a miss after the single fetch: answered with the identifier, no new fetch
C4_Witness ==
    /\ fetches = 1
    /\ calls >= 2
    /\ last.flag_before
    /\ last.absent
    /\ ~last.fetched
    /\ last.name = last.appid

\* C5 as claimed: for an identifier absent from the cache, when the fetch
\* fails or its catalog lacks the identifier, get_app_name returns the
\* identifier and does not raise.
C5_FallbackNeverFails ==
    (/\ last.absent
     /\ last.fetched
     /\ (last.resp.status_code # StatusOK \/ last.appid \notin Keys(last.resp.apps)))
    => (~last.raised /\ last.name = last.appid)

\* C5 as amended: for an identifier absent from the cache, a successful fetch
\* whose catalog lacks the identifier makes get_app_name return the identifier
\* without raising; a fetch with a non-success status makes get_app_name raise.
C5_FallbackAfterSuccessfulFetch ==
    (last.absent /\ last.fetched)
    => IF last.resp.status_code = StatusOK
       THEN ~last.raised
            /\ (last.appid \notin Keys(last.resp.apps) => last.name = last.appid)
       ELSE last.raised

C5_Witness ==
    /\ last.absent
    /\ last.fetched
    /\ last.resp.status_code = StatusOK
    /\ last.appid \notin Keys(last.resp.apps)
    /\ ~last.raised
    /\ last.name = last.appid

\* C6 as claimed: an identifier that is a key of the cache, or of the catalog
\* fetched after a cache miss, resolves to exactly the name mapped to it,
\* whatever string that name is.
C6_ReturnsMappedName ==
    /\ (last.appid \in Appids /\ ~last.absent /\ ~last.raised)
       => last.name = last.cached
    /\ (/\ last.absent
        /\ last.fetched
        /\ last.resp.status_code = StatusOK
        /\ last.appid \in Keys(last.resp.apps))
       => last.name = DictGet(last.resp.apps, last.appid)

====
